---- MODULE Spec2Model ----
(***************************************************************************)
(* Model of the location-tracking hook useLocationTracking                 *)
(* (src/unnamed/part_000): the location validator, the heading smoother,   *)
(* the signal classifier and the start/stop/reset lifecycle with the       *)
(* provider's subscriptions.                                               *)
(*                                                                         *)
(* Units.  Latitude and longitude are integers in 1e-7 degree, accuracy    *)
(* and distances in metres, speed in mm/s, headings in whole degrees,      *)
(* time in milliseconds.  NoValue stands for null/undefined, NaN for a     *)
(* non-finite number.  An optional object (LocationData | null) is the     *)
(* empty sequence or a one-element sequence.                               *)
(***************************************************************************)
EXTENDS Integers, Sequences, FiniteSets, TLC

VARIABLES
    location,                   \* useState<LocationData | null>
    hasPermission,              \* useState<boolean | null>: "null", "true", "false"
    isTracking,                 \* useState(false)
    error,                      \* useState<string | null>
    locationSubscription,       \* useRef: 0 is null, else the subscription's id
    headingSubscription,        \* useRef: 0 is null, else the subscription's id
    headingHistory,             \* useRef<number[]>
    lastValidLocation,          \* useRef<LocationData | null>
    locationHistory,            \* useRef<{lat, lng, timestamp}[]>
    consecutiveRejectionsCount, \* useRef<number>
    calls,                      \* the startTracking() invocations and where each one is suspended
    mountRequest,               \* the requestPermissions() of the mount effect: "pending" or "done"
    positionWatchers,           \* provider side: ids of the position subscriptions still delivering
    headingWatchers,            \* provider side: ids of the heading subscriptions still delivering
    platform,                   \* Platform.OS
    headingSamples,             \* the option headingSamples
    now,                        \* Date.now()
    pushes,                     \* number of fixes delivered so far
    readings,                   \* number of compass readings delivered so far
    validated,                  \* number of delivered fixes that passed isValidLocation
    interleaved,                \* some stopTracking() ran while a startTracking() was suspended
    lastOp                      \* the handler that ran last, with what it decided

vars == <<location, hasPermission, isTracking, error, locationSubscription,
          headingSubscription, headingHistory, lastValidLocation, locationHistory,
          consecutiveRejectionsCount, calls, mountRequest, positionWatchers,
          headingWatchers, platform, headingSamples, now, pushes, readings, validated,
          interleaved, lastOp>>

----------------------------------------------------------------------------
\* Bounds of the exploration.

MaxStarts == 2          \* startTracking() invocations in one run
MaxPushes == 6          \* fixes the provider delivers in one run
MaxReadings == 1        \* compass readings the provider delivers in one run
MaxValidated == 1       \* of these, the fixes that pass isValidLocation

\* Program constants.

maxAttempts == 10           \* initial-fix attempts
minAccuracy == 30           \* option default
DefaultHeadingSamples == 5  \* option default
maxRealisticSpeed == 50     \* m/s
MaxHistory == 10            \* locationHistory cap
RetryDelayMs == 1500        \* wait after a rejected initial fix
ErrorDelayMs == 2000        \* wait after a failed getCurrentPositionAsync

----------------------------------------------------------------------------
\* Values.

NoValue == 0 - 1000000              \* null / undefined
NaN == 0 - 2000000000               \* a non-finite number
Deg == 10 * 1000 * 1000             \* one degree, in coordinate units
ClockStepMs == 2 * 1000             \* resolution of the model's clock

None == << >>
Some(x) == << x >>
Get(o) == o[1]

Abs(x) == IF x < 0 THEN 0 - x ELSE x

\* JavaScript's truthiness of an optional number: null, undefined, NaN and 0 are falsy.
Truthy(x) == x # NoValue /\ x # NaN /\ x # 0

\* a || b on optional numbers
OrElse(a, b) == IF Truthy(a) THEN a ELSE b

\* x || undefined
OrUndefined(x) == IF Truthy(x) THEN x ELSE NoValue

\* JavaScript's %: the result takes the sign of the dividend.
JsMod(a, n) == IF a >= 0 THEN a % n ELSE 0 - ((0 - a) % n)

----------------------------------------------------------------------------
\* calculateDistance: the haversine distance in metres.

\* R * PI / 180 with R = 6371e3: the metres of one degree of a great circle.
MetresPerDegree == 111195

\* The length in metres of an arc of d coordinate units along a great circle.
ArcMetres(d) ==
    LET whole == d \div Deg
        rest  == d % Deg
        milli == rest \div 1000
        micro == rest % 1000
    IN  whole * MetresPerDegree
        + (milli * MetresPerDegree) \div 10000
        + (micro * MetresPerDegree) \div 10000000

\* For two points of one meridian the haversine terms reduce to
\* a = sin^2(dphi/2), c = 2 * atan2(sqrt(a), sqrt(1 - a)) = |dphi|, so the result
\* is R * |dphi|.  Every fix that reaches a distance computation in this model
\* lies on one meridian; the distance of any other pair has no value here.
calculateDistance(lat1, lng1, lat2, lng2) ==
    IF lng1 = lng2
    THEN ArcMetres(Abs(lat2 - lat1))
    ELSE CHOOSE d \in {} : TRUE

----------------------------------------------------------------------------
\* isValidLocation: the rejection rules, in the order of the code.

\* 1. lat === 0 || lng === 0
ZeroCoordinate(lat, lng) == lat = 0 \/ lng = 0

\* 2. !isFinite(lat) || !isFinite(lng) || lat === null || ... || lng === undefined
NonFinite(lat, lng) == lat \in {NaN, NoValue} \/ lng \in {NaN, NoValue}

\* Rule 3 with the latitude test forgotten.
LongitudeOutOfRange(lat, lng) == Abs(lng) > 180 * Deg

\* 3. Math.abs(lat) > 90 || Math.abs(lng) > 180
OutOfRange(lat, lng) == Abs(lat) > 90 * Deg \/ Abs(lng) > 180 * Deg

\* 4. Math.sqrt(lat * lat + lng * lng) < 0.1, compared as lat^2 + lng^2 < 0.1^2
\*    with the squares split into thousands so that no product leaves 32 bits.
NearOrigin(lat, lng) ==
    LET a  == Abs(lat)
        b  == Abs(lng)
        a1 == a \div 1000
        a0 == a % 1000
        b1 == b \div 1000
        b0 == b % 1000
        hi  == a1 * a1 + b1 * b1
        mid == 2 * (a1 * a0 + b1 * b0)
        lo  == a0 * a0 + b0 * b0
    IN  /\ a < Deg \div 10
        /\ b < Deg \div 10
        /\ hi * 1000 + mid + lo \div 1000 < 1000 * 1000 * 1000

\* 5. accuracy && accuracy > 1000
CatastrophicAccuracy(accuracy) == Truthy(accuracy) /\ accuracy > 1000

\* Rule 6 with the lower end of the window included.
TeleportationFromOneSecond(distance, ms) ==
    /\ (1000 \div maxRealisticSpeed) * distance > ms
    /\ ms >= 1000
    /\ ms < 60 * 1000

\* 6. distance > maxRealisticSpeed * timeDiff && timeDiff > 1 && timeDiff < 60,
\*    timeDiff = (Date.now() - lastValidLocation.timestamp) / 1000, in milliseconds here:
\*    distance > 50 * ms / 1000  <=>  20 * distance > ms.
TeleportationBy(distance, ms) ==
    /\ (1000 \div maxRealisticSpeed) * distance > ms
    /\ ms > 1000
    /\ ms < 60 * 1000

Teleportation(lat, lng) ==
    /\ lastValidLocation # None
    /\ TeleportationBy(calculateDistance(Get(lastValidLocation).latitude,
                                         Get(lastValidLocation).longitude, lat, lng),
                       now - Get(lastValidLocation).timestamp)

\* Math.abs(x - Math.round(x)) < 0.001
IsRound(x) ==
    LET f == Abs(x) % Deg
    IN  f < Deg \div 1000 \/ Deg - f < Deg \div 1000

\* 6b. distance > 10000 and latIsRound || lngIsRound
RoundJump(lat, lng) ==
    /\ lastValidLocation # None
    /\ calculateDistance(Get(lastValidLocation).latitude,
                         Get(lastValidLocation).longitude, lat, lng) > 10000
    /\ (IsRound(lat) \/ IsRound(lng))

\* Math.abs(a - b) < 0.000001
SameCoordinate(a, b) == Abs(a - b) < Deg \div 1000000

\* Rule 7 applied from the fourth history entry on.
StuckGpsFromFourEntries(lat, lng) ==
    /\ Len(locationHistory) >= 4
    /\ LET recent == SubSeq(locationHistory, Len(locationHistory) - 2, Len(locationHistory))
       IN  /\ \A i \in 1..3 : /\ SameCoordinate(recent[i].lat, recent[1].lat)
                              /\ SameCoordinate(recent[i].lng, recent[1].lng)
           /\ SameCoordinate(lat, recent[1].lat)
           /\ SameCoordinate(lng, recent[1].lng)

\* 7. the last three history entries and the candidate are all the same place
StuckGps(lat, lng) ==
    /\ Len(locationHistory) >= 3
    /\ LET recent == SubSeq(locationHistory, Len(locationHistory) - 2, Len(locationHistory))
       IN  /\ \A i \in 1..3 : /\ SameCoordinate(recent[i].lat, recent[1].lat)
                              /\ SameCoordinate(recent[i].lng, recent[1].lng)
           /\ SameCoordinate(lat, recent[1].lat)
           /\ SameCoordinate(lng, recent[1].lng)

\* Number.prototype.toString of a coordinate: the digits after the decimal point,
\* trailing zeros dropped (the shortest decimal that reads back as x).  A number
\* below 1e-6 prints in exponent notation and has no such digits.
FractionDigits(x) ==
    LET f == Abs(x) % Deg
        all == << f \div 1000000, (f \div 100000) % 10, (f \div 10000) % 10,
                  (f \div 1000) % 10, (f \div 100) % 10, (f \div 10) % 10, f % 10 >>
        last == IF f = 0 THEN 0
                ELSE IF f % 10 # 0 THEN 7
                ELSE IF f % 100 # 0 THEN 6
                ELSE IF f % 1000 # 0 THEN 5
                ELSE IF f % 10000 # 0 THEN 4
                ELSE IF f % 100000 # 0 THEN 3
                ELSE IF f % 1000000 # 0 THEN 2
                ELSE 1
    IN  IF Abs(x) < 10 THEN << >> ELSE SubSeq(all, 1, last)

\* str.includes('.000000')
IncludesSixZeros(x) ==
    LET digits == FractionDigits(x)
    IN  /\ Len(digits) >= 6
        /\ \A i \in 1..6 : digits[i] = 0

\* 8. latStr.includes('.000000') || lngStr.includes('.000000')
OverPrecise(lat, lng) == IncludesSixZeros(lat) \/ IncludesSixZeros(lng)

\* Rule 9 without its test of the rejection counter.
JumpWhileMovingAtAnyCount(lat, lng) ==
    /\ lastValidLocation # None
    /\ Get(lastValidLocation).isMoving
    /\ calculateDistance(Get(lastValidLocation).latitude,
                         Get(lastValidLocation).longitude, lat, lng) > 1000

\* 9. the last valid location was moving, the candidate is more than 1000 m away
\*    and no rejection is being counted
JumpWhileMoving(lat, lng) ==
    /\ lastValidLocation # None
    /\ Get(lastValidLocation).isMoving
    /\ calculateDistance(Get(lastValidLocation).latitude,
                         Get(lastValidLocation).longitude, lat, lng) > 1000
    /\ consecutiveRejectionsCount = 0

\* The first rule that rejects the candidate, or "none".
RejectReason(lat, lng, accuracy) ==
    CASE ZeroCoordinate(lat, lng)       -> "zero"
      [] NonFinite(lat, lng)            -> "nonFinite"
      [] OutOfRange(lat, lng)           -> "outOfRange"
      [] NearOrigin(lat, lng)           -> "nearOrigin"
      [] CatastrophicAccuracy(accuracy) -> "accuracy"
      [] Teleportation(lat, lng)        -> "teleportation"
      [] RoundJump(lat, lng)            -> "roundJump"
      [] StuckGps(lat, lng)             -> "stuck"
      [] OverPrecise(lat, lng)          -> "overPrecise"
      [] JumpWhileMoving(lat, lng)      -> "jumpWhileMoving"
      [] OTHER                          -> "none"

\* isValidLocation with rule 4 taken for a warning only.
AcceptsNearOrigin(lat, lng, accuracy) ==
    RejectReason(lat, lng, accuracy) \in {"none", "nearOrigin"}

\* The value isValidLocation returns.
isValidLocation(lat, lng, accuracy) == RejectReason(lat, lng, accuracy) = "none"

\* consecutiveRejectionsCount after a rejection: consecutiveRejectionsCount.current++
CountAfterRejection(count) == count + 1

\* isValidLocation without its reset of the counter on acceptance.
CountWithoutReset(valid) ==
    IF valid THEN consecutiveRejectionsCount ELSE consecutiveRejectionsCount + 1

\* consecutiveRejectionsCount after isValidLocation ran and returned valid
CountAfterValidation(valid) ==
    IF valid THEN 0 ELSE CountAfterRejection(consecutiveRejectionsCount)

\* locationHistory.push(...) without the shift() beyond the cap.
PushHistoryWithoutShift(history, entry) == Append(history, entry)

\* locationHistory.push(...), then shift() beyond the cap
PushHistory(history, entry) ==
    LET pushed == Append(history, entry)
    IN  IF Len(pushed) > MaxHistory THEN Tail(pushed) ELSE pushed

\* isValidLocation without its locationHistory.push(...).
HistoryWithoutCandidate(valid, lat, lng) == locationHistory

\* locationHistory after isValidLocation ran on (lat, lng) and returned valid
HistoryAfterValidation(valid, lat, lng) ==
    IF valid
    THEN PushHistory(locationHistory, [lat |-> lat, lng |-> lng, timestamp |-> now])
    ELSE locationHistory

----------------------------------------------------------------------------
\* getSignalStrength

\* The classifier with the spec scenario's reading of accuracy 8 as excellent.
SignalStrengthWideBand(accuracy, count) ==
    IF count > 10 THEN "lost"
    ELSE IF count > 5 THEN "poor"
    ELSE IF ~Truthy(accuracy) THEN "lost"
    ELSE IF accuracy <= 10 THEN "excellent"
    ELSE IF accuracy <= 15 THEN "good"
    ELSE IF accuracy <= 50 THEN "poor"
    ELSE "lost"

\* The classifier without the streak override.
SignalStrengthByAccuracy(accuracy, count) ==
    IF ~Truthy(accuracy) THEN "lost"
    ELSE IF accuracy <= 5 THEN "excellent"
    ELSE IF accuracy <= 15 THEN "good"
    ELSE IF accuracy <= 50 THEN "poor"
    ELSE "lost"

getSignalStrength(accuracy, count) ==
    IF count > 10 THEN "lost"
    ELSE IF count > 5 THEN "poor"
    ELSE IF ~Truthy(accuracy) THEN "lost"
    ELSE IF accuracy <= 5 THEN "excellent"
    ELSE IF accuracy <= 15 THEN "good"
    ELSE IF accuracy <= 50 THEN "poor"
    ELSE "lost"

\* The rejection branch with the threshold of the classifier's "lost" streak.
LateRejectionSignal(count) == IF count > 10 THEN "lost" ELSE "poor"

\* The signalStrength the rejection branch of the position callback publishes:
\* consecutiveRejectionsCount.current > 5 ? 'lost' : 'poor'
RejectionSignal(count) == IF count > 5 THEN "lost" ELSE "poor"

----------------------------------------------------------------------------
\* smoothHeading: the circular mean of the last headingSamples headings.
\* Math.sin and Math.cos are taken at whole degrees and scaled by 10000;
\* the mean is rounded to the nearest whole degree.

SinTable ==
    << 0, 175, 349, 523, 698, 872, 1045, 1219, 1392, 1564,
       1736, 1908, 2079, 2250, 2419, 2588, 2756, 2924, 3090, 3256,
       3420, 3584, 3746, 3907, 4067, 4226, 4384, 4540, 4695, 4848,
       5000, 5150, 5299, 5446, 5592, 5736, 5878, 6018, 6157, 6293,
       6428, 6561, 6691, 6820, 6947, 7071, 7193, 7314, 7431, 7547,
       7660, 7771, 7880, 7986, 8090, 8192, 8290, 8387, 8480, 8572,
       8660, 8746, 8829, 8910, 8988, 9063, 9135, 9205, 9272, 9336,
       9397, 9455, 9511, 9563, 9613, 9659, 9703, 9744, 9781, 9816,
       9848, 9877, 9903, 9925, 9945, 9962, 9976, 9986, 9994, 9998,
       10000 >>

\* Math.sin(d * Math.PI / 180) * 10000 for a whole d in 0..359
Sin(d) ==
    IF d <= 90 THEN SinTable[d + 1]
    ELSE IF d <= 180 THEN SinTable[180 - d + 1]
    ELSE IF d <= 270 THEN 0 - SinTable[d - 180 + 1]
    ELSE 0 - SinTable[360 - d + 1]

\* Math.cos(d * Math.PI / 180) * 10000 for a whole d in 0..359
Cos(d) == Sin((d + 90) % 360)

\* sinSum and cosSum over headingHistory
RECURSIVE SinSum(_)
SinSum(history) == IF history = << >> THEN 0 ELSE Sin(Head(history)) + SinSum(Tail(history))

RECURSIVE CosSum(_)
CosSum(history) == IF history = << >> THEN 0 ELSE Cos(Head(history)) + CosSum(Tail(history))

\* The largest whole degree t in lo..hi-1 that the direction (x, y) has reached:
\* y * cos t - x * sin t >= 0.
RECURSIVE Bisect(_, _, _, _)
Bisect(y, x, lo, hi) ==
    IF hi - lo <= 1 THEN lo
    ELSE LET mid == (lo + hi) \div 2
         IN  IF y * Cos(mid % 360) - x * Sin(mid % 360) >= 0
             THEN Bisect(y, x, mid, hi)
             ELSE Bisect(y, x, lo, mid)

\* ((Math.atan2(y, x) * 180) / Math.PI + 360) % 360, to the nearest whole degree
Atan2Degrees(y, x) ==
    IF x = 0 /\ y = 0 THEN 0
    ELSE LET quadrant == IF x > 0 /\ y >= 0 THEN 0
                         ELSE IF x <= 0 /\ y > 0 THEN 90
                         ELSE IF x < 0 /\ y <= 0 THEN 180
                         ELSE 270
             below == Bisect(y, x, quadrant, quadrant + 90)
             above == below + 1
             near(t) == x * Cos(t % 360) + y * Sin(t % 360)
         IN  IF near(below) >= near(above) THEN below % 360 ELSE above % 360

\* ((newHeading % 360) + 360) % 360
NormalizeHeading(h) == JsMod(JsMod(h, 360) + 360, 360)

\* headingHistory.push(h), then shift() beyond headingSamples
PushHeadingSample(history, h) ==
    LET pushed == Append(history, h)
    IN  IF Len(pushed) > headingSamples THEN Tail(pushed) ELSE pushed

\* The arithmetic mean of the samples instead of their circular mean.
ArithmeticMean(history) ==
    IF history = << >> THEN NaN
    ELSE LET sum[i \in 0..Len(history)] == IF i = 0 THEN 0 ELSE sum[i - 1] + history[i]
         IN  sum[Len(history)] \div Len(history)

\* The circular mean of the history.  Dividing both sums by the length, as the
\* code does, does not change the angle; for an empty history both quotients
\* are 0 / 0 and Math.atan2(NaN, NaN) is NaN.
CircularMean(history) ==
    IF history = << >>
    THEN NaN
    ELSE Atan2Degrees(SinSum(history), CosSum(history))

\* newHeading === null || newHeading === undefined || isNaN(newHeading)
NoHeading(h) == h = NoValue \/ h = NaN

\* headingHistory after smoothHeading(newHeading)
HistoryAfterSmoothing(newHeading) ==
    IF NoHeading(newHeading)
    THEN headingHistory
    ELSE PushHeadingSample(headingHistory, NormalizeHeading(newHeading))

\* The value smoothHeading(newHeading) returns.
smoothHeading(newHeading) ==
    IF NoHeading(newHeading)
    THEN IF lastValidLocation = None THEN 0
         ELSE OrElse(Get(lastValidLocation).smoothedHeading, 0)
    ELSE CircularMean(HistoryAfterSmoothing(newHeading))

----------------------------------------------------------------------------
\* What the provider delivers.

HomeLat == 39 * Deg + 9042000           \* 39.9042
HomeLng == 116 * Deg + 4074000          \* 116.4074

Fix(lat, lng, accuracy, heading, speed) ==
    [latitude |-> lat, longitude |-> lng, accuracy |-> accuracy,
     heading |-> heading, speed |-> speed]

ZeroFix        == Fix(0, 0, NoValue, NoValue, NoValue)
HomeFix        == Fix(HomeLat, HomeLng, 8, 350, NoValue)
WalkFix        == Fix(HomeLat + 45000, HomeLng, 3, 10, 2000)       \* 500 m north, moving
FarFix         == Fix(HomeLat + 500000, HomeLng, 12, NoValue, 300) \* 5.5 km north
CoarseFix      == Fix(HomeLat + 45000, HomeLng, 40, 10, NoValue)   \* beyond minAccuracy
LostFix        == Fix(HomeLat, HomeLng, 2000, NoValue, NoValue)    \* catastrophic accuracy
PreciseFix     == Fix(40 * Deg + 1, HomeLng, 8, NoValue, NoValue)  \* 40.0000001
NearOriginFix  == Fix(500000, 500000, 8, NoValue, NoValue)         \* (0.05, 0.05)
OutOfRangeFix  == Fix(91 * Deg, HomeLng, 8, NoValue, NoValue)
NaNFix         == Fix(NaN, HomeLng, 8, NoValue, NoValue)

Fixes == {ZeroFix, HomeFix, WalkFix, FarFix, CoarseFix, LostFix, PreciseFix,
          NearOriginFix, OutOfRangeFix, NaNFix}

CompassHeadings == {NoValue, 10, 270}

PermissionOutcomes == {"granted", "denied", "threw"}

----------------------------------------------------------------------------
\* The startTracking() invocations.  Each is suspended at one of its awaits:
\*   "permission"     await requestPermissions()
\*   "getFix"         await Location.getCurrentPositionAsync(...)
\*   "retryDelay"     await setTimeout(1500) after a rejected fix
\*   "errorDelay"     await setTimeout(2000) after a failed request
\*   "watchPosition"  await Location.watchPositionAsync(...)
\*   "watchHeading"   await Location.watchHeadingAsync(...)
\* and otherwise "idle" (not yet called) or "done" (returned).
\* attempts is the loop's local counter; stopped is kept while the invocation
\* is suspended.

Calls == 1..MaxStarts

InLoop(c) == c.pc \in {"getFix", "retryDelay", "errorDelay"}
InFlight(c) == c.pc \notin {"idle", "done"}

NewCall ==
    [pc |-> "idle", attempts |-> 0,
     stopped |-> "no"]         \* stopTracking() ran while the invocation was suspended:
                               \* "inLoop" (in its retry loop), "later" (after it), or "no"

\* The invocation returns: what it held is gone.
Returned(c) == [c EXCEPT !.pc = "done", !.attempts = 0, !.stopped = "no"]

\* stopTracking() ran: note it in every invocation that is suspended.
Stopped(cs) ==
    [q \in Calls |->
        IF InFlight(cs[q]) /\ cs[q].stopped = "no"
        THEN [cs[q] EXCEPT !.stopped = IF InLoop(cs[q]) THEN "inLoop" ELSE "later"]
        ELSE cs[q]]

\* The handler that ran last: its name, the invocation or subscription it belongs
\* to, and what it decided.
Op(name, p, verdict) == [op |-> name, call |-> p, verdict |-> verdict]

----------------------------------------------------------------------------
\* The state after useLocationTracking({ ..., headingSamples: samples }) ran
\* for the first time.
Constructed(samples) ==
    /\ headingSamples = samples
    /\ location = None
    /\ hasPermission = "null"
    /\ isTracking = FALSE
    /\ error = "none"
    /\ locationSubscription = 0
    /\ headingSubscription = 0
    /\ headingHistory = << >>
    /\ lastValidLocation = None
    /\ locationHistory = << >>
    /\ consecutiveRejectionsCount = 0
    /\ calls = [p \in Calls |-> NewCall]
    /\ mountRequest = "pending"
    /\ positionWatchers = {}
    /\ headingWatchers = {}
    /\ platform \in {"ios", "android"}
    /\ now = 0
    /\ pushes = 0
    /\ readings = 0
    /\ validated = 0
    /\ interleaved = FALSE
    /\ lastOp = Op("Init", 0, "-")

\* The screen constructs the hook with headingSamples: 5.
Init == Constructed(DefaultHeadingSamples)

----------------------------------------------------------------------------
\* requestPermissions

\* requestPermissions() that takes every answered request for a grant.
PermissionAnswered(outcome) == outcome # "threw"

\* The state requestPermissions() leaves once the platform answered.
PermissionGranted(outcome) == outcome = "granted"

PermissionError(outcome) ==
    CASE outcome = "granted" -> error
      [] outcome = "denied"  -> "permissionDenied"
      [] outcome = "threw"   -> "permissionError"

\* The mount effect's requestPermissions() completes.
MountPermissionResolved(outcome) ==
    /\ mountRequest = "pending"
    /\ mountRequest' = "done"
    /\ hasPermission' = IF PermissionGranted(outcome) THEN "true" ELSE "false"
    /\ error' = PermissionError(outcome)
    /\ lastOp' = Op("MountPermissionResolved", 0, outcome)
    /\ UNCHANGED <<calls, location, isTracking, locationSubscription, headingSubscription,
                   headingHistory, lastValidLocation, locationHistory,
                   consecutiveRejectionsCount, positionWatchers, headingWatchers,
                   platform, headingSamples, now, pushes, readings, validated, interleaved>>

----------------------------------------------------------------------------
\* startTracking

\* The loop condition with <= for <.
LoopContinuesInclusive(attempts) == attempts <= maxAttempts

\* while (!initialPosition && attempts < maxAttempts)
LoopContinues(attempts) == attempts < maxAttempts

\* setIsTracking(true) ... first getCurrentPositionAsync(): what the invocation
\* record becomes when the retry loop is entered.
EnterLoop(c) ==
    [c EXCEPT !.pc = "getFix", !.attempts = 1]

\* startTracking() is called.  Without the permission it first awaits
\* requestPermissions(), which clears the error before it asks.
StartTracking(p) ==
    /\ calls[p].pc = "idle"
    /\ \A q \in Calls : q < p => calls[q].pc # "idle"
    /\ IF hasPermission # "true"
       THEN /\ error' = "none"
            /\ calls' = [calls EXCEPT ![p].pc = "permission"]
            /\ UNCHANGED <<isTracking, consecutiveRejectionsCount, locationHistory>>
       ELSE /\ isTracking' = TRUE
            /\ error' = "none"
            /\ consecutiveRejectionsCount' = 0
            /\ locationHistory' = << >>
            /\ calls' = [calls EXCEPT ![p] = EnterLoop(calls[p])]
    /\ lastOp' = Op("StartTracking", p, "-")
    /\ UNCHANGED <<location, hasPermission, locationSubscription, headingSubscription,
                   headingHistory, lastValidLocation, mountRequest, positionWatchers,
                   headingWatchers, platform, headingSamples, now, pushes, readings, validated, interleaved>>

\* The requestPermissions() awaited by startTracking() completes.
StartPermissionResolved(p, outcome) ==
    /\ calls[p].pc = "permission"
    /\ hasPermission' = IF PermissionGranted(outcome) THEN "true" ELSE "false"
    /\ IF PermissionGranted(outcome)
       THEN /\ isTracking' = TRUE
            /\ error' = "none"
            /\ consecutiveRejectionsCount' = 0
            /\ locationHistory' = << >>
            /\ calls' = [calls EXCEPT ![p] = EnterLoop(calls[p])]
       ELSE /\ error' = PermissionError(outcome)
            /\ calls' = [calls EXCEPT ![p] = Returned(calls[p])]
            /\ UNCHANGED <<isTracking, consecutiveRejectionsCount, locationHistory>>
    /\ lastOp' = Op("StartPermissionResolved", p, outcome)
    /\ UNCHANGED <<location, locationSubscription, headingSubscription, headingHistory,
                   lastValidLocation, mountRequest, positionWatchers, headingWatchers,
                   platform, headingSamples, now, pushes, readings, validated, interleaved>>

\* (speed || 0) > 0.5
IsMoving(speed) == OrElse(speed, 0) > 500

\* The LocationData built from a fix (initialLocationData / locationData).
LocationData(fix, heading, smoothed, signal) ==
    [latitude |-> fix.latitude,
     longitude |-> fix.longitude,
     heading |-> heading,
     smoothedHeading |-> smoothed,
     accuracy |-> OrUndefined(fix.accuracy),
     speed |-> OrUndefined(fix.speed),
     timestamp |-> now,         \* position.timestamp: the provider stamps a fix
                                \* with the time at which it delivers it
     isMoving |-> IsMoving(fix.speed),
     isValid |-> TRUE,
     signalStrength |-> signal]

\* initialPosition.coords.heading || 0
InitialHeading(fix) == OrElse(fix.heading, 0)

\* getCurrentPositionAsync() returns a fix.  A validated fix ends the loop: the
\* initial snapshot is published and watchPositionAsync() is awaited.  A rejected
\* fix is followed by the 1500 ms wait.
GetFixResolved(p, fix) ==
    LET valid == isValidLocation(fix.latitude, fix.longitude, fix.accuracy)
        count == CountAfterValidation(valid)
    IN  /\ calls[p].pc = "getFix"
        /\ consecutiveRejectionsCount' = count
        /\ locationHistory' = HistoryAfterValidation(valid, fix.latitude, fix.longitude)
        /\ IF valid
           THEN LET data == LocationData(fix, InitialHeading(fix),
                                         smoothHeading(InitialHeading(fix)),
                                         getSignalStrength(fix.accuracy, count))
                IN  /\ headingHistory' = HistoryAfterSmoothing(InitialHeading(fix))
                    /\ location' = Some(data)
                    /\ lastValidLocation' = Some(data)
                    /\ error' = "none"
                    /\ calls' = [calls EXCEPT ![p].pc = "watchPosition"]
                    /\ lastOp' = Op("GetFixResolved", p, "accepted")
           ELSE /\ calls' = [calls EXCEPT ![p].pc = "retryDelay"]
                /\ lastOp' = Op("GetFixResolved", p, "rejected")
                /\ UNCHANGED <<headingHistory, location, lastValidLocation, error>>
        /\ UNCHANGED <<hasPermission, isTracking, locationSubscription, headingSubscription,
                       mountRequest, positionWatchers, headingWatchers, platform, headingSamples, now,
                       pushes, readings, validated, interleaved>>

\* The loop ended without a position: the error is set and tracking is off.
Exhausted(p) ==
    /\ error' = "noValidFix"
    /\ isTracking' = FALSE
    /\ calls' = [calls EXCEPT ![p] = Returned(calls[p])]

\* getCurrentPositionAsync() throws: wait 2000 ms unless this was the last attempt.
GetFixFailed(p) ==
    /\ calls[p].pc = "getFix"
    /\ IF LoopContinues(calls[p].attempts)
       THEN /\ calls' = [calls EXCEPT ![p].pc = "errorDelay"]
            /\ lastOp' = Op("GetFixFailed", p, "retry")
            /\ UNCHANGED <<error, isTracking>>
       ELSE /\ Exhausted(p)
            /\ lastOp' = Op("GetFixFailed", p, "exhausted")
    /\ UNCHANGED <<location, hasPermission, locationSubscription, headingSubscription,
                   headingHistory, lastValidLocation, locationHistory,
                   consecutiveRejectionsCount, mountRequest, positionWatchers,
                   headingWatchers, platform, headingSamples, now, pushes, readings, validated, interleaved>>

\* The clock when a timer of the given delay fires: not before the delay has
\* passed, at the resolution of the model's clock.
TimerFiresAt(delay) == ((now + delay + ClockStepMs - 1) \div ClockStepMs) * ClockStepMs

\* The wait after a failed attempt is over: the next attempt, or the end of the loop.
TimerFired(p) ==
    /\ calls[p].pc \in {"retryDelay", "errorDelay"}
    /\ now' = TimerFiresAt(IF calls[p].pc = "retryDelay" THEN RetryDelayMs ELSE ErrorDelayMs)
    /\ IF LoopContinues(calls[p].attempts)
       THEN /\ calls' = [calls EXCEPT ![p].pc = "getFix",
                                                       ![p].attempts = calls[p].attempts + 1]
            /\ lastOp' = Op("TimerFired", p, "retry")
            /\ UNCHANGED <<error, isTracking>>
       ELSE /\ Exhausted(p)
            /\ lastOp' = Op("TimerFired", p, "exhausted")
    /\ UNCHANGED <<location, hasPermission, locationSubscription, headingSubscription,
                   headingHistory, lastValidLocation, locationHistory,
                   consecutiveRejectionsCount, mountRequest, positionWatchers,
                   headingWatchers, platform, headingSamples, pushes, readings, validated, interleaved>>

\* watchPositionAsync() returns the subscription; on iOS watchHeadingAsync() is awaited next.
WatchPositionResolved(p) ==
    /\ calls[p].pc = "watchPosition"
    /\ locationSubscription' = p
    /\ positionWatchers' = positionWatchers \cup {p}
    /\ calls' = [calls EXCEPT ![p] = IF platform = "ios"
                                      THEN [calls[p] EXCEPT !.pc = "watchHeading"]
                                      ELSE Returned(calls[p])]
    /\ lastOp' = Op("WatchPositionResolved", p, "-")
    /\ UNCHANGED <<location, hasPermission, isTracking, error, headingSubscription,
                   headingHistory, lastValidLocation, locationHistory,
                   consecutiveRejectionsCount, mountRequest, headingWatchers, platform, headingSamples,
                   now, pushes, readings, validated, interleaved>>

\* watchPositionAsync() throws: the outer catch reports it and turns tracking off.
WatchPositionFailed(p) ==
    /\ calls[p].pc = "watchPosition"
    /\ error' = "startError"
    /\ isTracking' = FALSE
    /\ calls' = [calls EXCEPT ![p] = Returned(calls[p])]
    /\ lastOp' = Op("WatchPositionFailed", p, "-")
    /\ UNCHANGED <<location, hasPermission, locationSubscription, headingSubscription,
                   headingHistory, lastValidLocation, locationHistory,
                   consecutiveRejectionsCount, mountRequest, positionWatchers,
                   headingWatchers, platform, headingSamples, now, pushes, readings, validated, interleaved>>

\* watchHeadingAsync() returns the subscription.
WatchHeadingResolved(p) ==
    /\ calls[p].pc = "watchHeading"
    /\ headingSubscription' = p
    /\ headingWatchers' = headingWatchers \cup {p}
    /\ calls' = [calls EXCEPT ![p] = Returned(calls[p])]
    /\ lastOp' = Op("WatchHeadingResolved", p, "-")
    /\ UNCHANGED <<location, hasPermission, isTracking, error, locationSubscription,
                   headingHistory, lastValidLocation, locationHistory,
                   consecutiveRejectionsCount, mountRequest, positionWatchers, platform, headingSamples,
                   now, pushes, readings, validated, interleaved>>

\* watchHeadingAsync() throws: the inner catch only logs it.
WatchHeadingFailed(p) ==
    /\ calls[p].pc = "watchHeading"
    /\ calls' = [calls EXCEPT ![p] = Returned(calls[p])]
    /\ lastOp' = Op("WatchHeadingFailed", p, "-")
    /\ UNCHANGED <<location, hasPermission, isTracking, error, locationSubscription,
                   headingSubscription, headingHistory, lastValidLocation, locationHistory,
                   consecutiveRejectionsCount, mountRequest, positionWatchers,
                   headingWatchers, platform, headingSamples, now, pushes, readings, validated, interleaved>>

----------------------------------------------------------------------------
\* The callbacks of the two subscriptions.

\* The rejection branch without its spread of prev: the position is lost.
SnapshotWithoutPrev(prev, count) ==
    [prev EXCEPT !.signalStrength = IF count > 5 THEN "lost" ELSE "poor",
                 !.timestamp = now,
                 !.latitude = NoValue, !.longitude = NoValue, !.accuracy = NoValue]

\* { ...prev, signalStrength: count > 5 ? 'lost' : 'poor', timestamp: Date.now() }
RejectedSnapshot(prev, count) ==
    [prev EXCEPT !.signalStrength = RejectionSignal(count), !.timestamp = now]

\* acc && acc > minAccuracy
TooCoarse(accuracy) == Truthy(accuracy) /\ accuracy > minAccuracy

\* newLocation.coords.heading || lastValidLocation.current?.heading || 0
CurrentHeading(fix) ==
    OrElse(fix.heading,
           OrElse(IF lastValidLocation = None THEN NoValue ELSE Get(lastValidLocation).heading, 0))

\* What the callback decides about a fix that isValidLocation judged valid or not.
PushVerdict(valid, accuracy) ==
    IF ~valid THEN "rejected"
    ELSE IF TooCoarse(accuracy) THEN "coarse"
    ELSE "accepted"

\* consecutiveRejectionsCount after the callback ran: the minAccuracy filter
\* counts on top of what isValidLocation left.
CountAfterPush(valid, accuracy) ==
    IF PushVerdict(valid, accuracy) = "coarse"
    THEN CountAfterRejection(CountAfterValidation(valid))
    ELSE CountAfterValidation(valid)

\* The provider delivers a fix to the callback of position subscription s.
PushFix(s, fix) ==
    LET valid   == isValidLocation(fix.latitude, fix.longitude, fix.accuracy)
        verdict == PushVerdict(valid, fix.accuracy)
        count   == CountAfterPush(valid, fix.accuracy)
    IN  /\ s \in positionWatchers
        /\ pushes < MaxPushes
        /\ pushes' = pushes + 1
        /\ verdict # "rejected" => validated < MaxValidated
        /\ validated' = IF verdict # "rejected" THEN validated + 1 ELSE validated
        /\ consecutiveRejectionsCount' = count
        /\ locationHistory' = HistoryAfterValidation(valid, fix.latitude, fix.longitude)
        /\ CASE verdict = "rejected" ->
                  /\ location' = IF lastValidLocation # None /\ location # None
                                 THEN Some(RejectedSnapshot(Get(location), count))
                                 ELSE location
                  /\ UNCHANGED <<lastValidLocation, headingHistory, error>>
             [] verdict = "coarse" ->
                  UNCHANGED <<location, lastValidLocation, headingHistory, error>>
             [] verdict = "accepted" ->
                  LET data == LocationData(fix, CurrentHeading(fix),
                                           smoothHeading(CurrentHeading(fix)),
                                           getSignalStrength(fix.accuracy, count))
                  IN  /\ headingHistory' = HistoryAfterSmoothing(CurrentHeading(fix))
                      /\ location' = Some(data)
                      /\ lastValidLocation' = Some(data)
                      /\ error' = "none"
        /\ lastOp' = Op("PushFix", s, verdict)
        /\ UNCHANGED <<hasPermission, isTracking, locationSubscription, headingSubscription,
                       calls, mountRequest, positionWatchers, headingWatchers, platform, headingSamples, now,
                       readings, interleaved>>

\* The guard of the compass callback without its test of lastValidLocation.
CompassAppliesToAnySession(heading) == ~NoHeading(heading)

\* compassHeading !== null && !isNaN(compassHeading) && lastValidLocation.current
\*   && lastValidLocation.current.isValid
CompassApplies(heading) ==
    /\ ~NoHeading(heading)
    /\ lastValidLocation # None
    /\ Get(lastValidLocation).isValid

\* { ...prev, heading, smoothedHeading, timestamp: Date.now() }
CompassSnapshot(prev, heading, smoothed) ==
    [prev EXCEPT !.heading = heading, !.smoothedHeading = smoothed, !.timestamp = now]

\* The provider delivers a compass reading to the callback of heading subscription s.
PushHeading(s, heading) ==
    /\ s \in headingWatchers
    /\ readings < MaxReadings
    /\ readings' = readings + 1
    /\ IF CompassApplies(heading)
       THEN /\ headingHistory' = HistoryAfterSmoothing(heading)
            /\ location' = IF location # None
                           THEN Some(CompassSnapshot(Get(location), heading, smoothHeading(heading)))
                           ELSE location
            /\ lastOp' = Op("PushHeading", s, "applied")
       ELSE /\ UNCHANGED <<headingHistory, location>>
            /\ lastOp' = Op("PushHeading", s, "ignored")
    /\ UNCHANGED <<calls, hasPermission, isTracking, error, locationSubscription,
                   headingSubscription, lastValidLocation, locationHistory,
                   consecutiveRejectionsCount, mountRequest, positionWatchers,
                   headingWatchers, platform, headingSamples, now, pushes, validated, interleaved>>

----------------------------------------------------------------------------
\* stopTracking and resetTracking

\* The provider's watchers once the subscription held in a ref is removed.
Removed(watchers, ref) == IF ref # 0 THEN watchers \ {ref} ELSE watchers

\* What stopTracking() does to the subscriptions and to isTracking.
StopEffects ==
    /\ positionWatchers' = Removed(positionWatchers, locationSubscription)
    /\ locationSubscription' = 0
    /\ headingWatchers' = Removed(headingWatchers, headingSubscription)
    /\ headingSubscription' = 0
    /\ isTracking' = FALSE
    /\ calls' = Stopped(calls)
    /\ interleaved' = (interleaved \/ \E p \in Calls : InFlight(calls[p]))

\* stopTracking() that also drops the published snapshot.
StopClearsSnapshot ==
    /\ StopEffects
    /\ location' = None
    /\ lastOp' = Op("StopTracking", 0, "-")
    /\ UNCHANGED <<hasPermission, error, headingHistory, lastValidLocation,
                   locationHistory, consecutiveRejectionsCount, mountRequest, platform,
                   headingSamples, now, pushes, readings, validated>>

StopTracking ==
    /\ StopEffects
    /\ lastOp' = Op("StopTracking", 0, "-")
    /\ UNCHANGED <<location, hasPermission, error, headingHistory, lastValidLocation,
                   locationHistory, consecutiveRejectionsCount, mountRequest, platform,
                   headingSamples, now, pushes, readings, validated>>

\* resetTracking() that keeps the two histories.
ResetKeepsHistories ==
    /\ StopEffects
    /\ location' = None
    /\ error' = "none"
    /\ lastValidLocation' = None
    /\ consecutiveRejectionsCount' = 0
    /\ lastOp' = Op("ResetTracking", 0, "-")
    /\ UNCHANGED <<headingHistory, locationHistory, hasPermission, mountRequest, platform,
                   headingSamples, now, pushes, readings, validated>>

\* resetTracking() that keeps lastValidLocation.current.
ResetKeepsLastValidLocation ==
    /\ StopEffects
    /\ location' = None
    /\ error' = "none"
    /\ headingHistory' = << >>
    /\ locationHistory' = << >>
    /\ consecutiveRejectionsCount' = 0
    /\ lastOp' = Op("ResetTracking", 0, "-")
    /\ UNCHANGED <<lastValidLocation, hasPermission, mountRequest, platform,
                   headingSamples, now, pushes, readings, validated>>

ResetTracking ==
    /\ StopEffects
    /\ location' = None
    /\ error' = "none"
    /\ headingHistory' = << >>
    /\ lastValidLocation' = None
    /\ locationHistory' = << >>
    /\ consecutiveRejectionsCount' = 0
    /\ lastOp' = Op("ResetTracking", 0, "-")
    /\ UNCHANGED <<hasPermission, mountRequest, platform, headingSamples, now, pushes,
                   readings, validated>>

----------------------------------------------------------------------------
\* The caller starts tracking only when no earlier startTracking() is still running.
NoCallInFlight == \A q \in Calls : ~InFlight(calls[q])

\* The screen offers the hook's commands once the mount effect's permission
\* request has answered ("Verificando permisos..." until then).
Mounted == mountRequest = "done"

\* A fix that is not unusable in itself (rules 1 to 5 and 8 pass it).
Plausible(fix) ==
    /\ ~ZeroCoordinate(fix.latitude, fix.longitude)
    /\ ~NonFinite(fix.latitude, fix.longitude)
    /\ ~OutOfRange(fix.latitude, fix.longitude)
    /\ ~NearOrigin(fix.latitude, fix.longitude)
    /\ ~CatastrophicAccuracy(fix.accuracy)
    /\ ~OverPrecise(fix.latitude, fix.longitude)

\* The provider's warm-up: getCurrentPositionAsync() returns a plausible fix or
\* throws at the first attempt of a startTracking() or at the last one, and
\* returns unusable fixes in between.
UsableAttempts == {1, maxAttempts}

ProviderAnswers(p, fix) == Plausible(fix) => calls[p].attempts \in UsableAttempts

ProviderThrows(p) == calls[p].attempts \in UsableAttempts

\* The lifecycle: the mount effect, the startTracking() invocations with the
\* provider's answers, stopTracking() and resetTracking() at any moment.
Next ==
    \/ \E outcome \in PermissionOutcomes : MountPermissionResolved(outcome)
    \/ \E p \in Calls : Mounted /\ NoCallInFlight /\ StartTracking(p)
    \/ \E p \in Calls, outcome \in PermissionOutcomes : StartPermissionResolved(p, outcome)
    \/ \E p \in Calls, fix \in Fixes : ProviderAnswers(p, fix) /\ GetFixResolved(p, fix)
    \/ \E p \in Calls : ProviderThrows(p) /\ GetFixFailed(p)
    \/ \E p \in Calls : TimerFired(p)
    \/ \E p \in Calls : WatchPositionResolved(p)
    \/ \E p \in Calls : WatchPositionFailed(p)
    \/ \E p \in Calls : WatchHeadingResolved(p)
    \/ \E p \in Calls : WatchHeadingFailed(p)
    \/ Mounted /\ StopTracking
    \/ Mounted /\ ResetTracking

Spec == Init /\ [][Next]_vars

\* One tracking session and what its two subscriptions deliver: the first
\* startTracking() of the auto-start effect, then fixes and compass readings,
\* with stopTracking() and resetTracking() once the invocation has returned.
FirstCall == 1

StreamNext ==
    \/ \E outcome \in PermissionOutcomes : MountPermissionResolved(outcome)
    \/ Mounted /\ StartTracking(FirstCall)
    \/ \E outcome \in PermissionOutcomes : StartPermissionResolved(FirstCall, outcome)
    \/ \E fix \in Fixes : ProviderAnswers(FirstCall, fix) /\ GetFixResolved(FirstCall, fix)
    \/ ProviderThrows(FirstCall) /\ GetFixFailed(FirstCall)
    \/ TimerFired(FirstCall)
    \/ WatchPositionResolved(FirstCall)
    \/ WatchPositionFailed(FirstCall)
    \/ WatchHeadingResolved(FirstCall)
    \/ WatchHeadingFailed(FirstCall)
    \/ \E s \in Calls, fix \in Fixes : PushFix(s, fix)
    \/ \E s \in Calls, heading \in CompassHeadings : PushHeading(s, heading)
    \/ NoCallInFlight /\ StopTracking
    \/ NoCallInFlight /\ ResetTracking

StreamSpec == Init /\ [][StreamNext]_vars

----------------------------------------------------------------------------
\* Properties of one tracking session (StreamSpec).

\* The fields of a snapshot that hold the position and the heading.
PositionFields == {"latitude", "longitude", "heading", "smoothedHeading",
                   "accuracy", "speed", "isMoving"}

\* A step of the position callback: the provider pushed a fix and the callback
\* gave the verdict.
PushStep(verdict) == lastOp'.op = "PushFix" /\ lastOp'.verdict = verdict

\* C1: a pushed fix that isValidLocation rejects leaves latitude, longitude,
\* heading, smoothedHeading, accuracy, speed and isMoving of the published
\* snapshot as they were, and leaves error and isTracking as they were; of the
\* program's state only the snapshot's signalStrength and timestamp and the
\* rejection counter change.
C1_RejectedFixKeepsPosition ==
    [][PushStep("rejected")
       => /\ \E fix \in Fixes :
                /\ ~isValidLocation(fix.latitude, fix.longitude, fix.accuracy)
                /\ PushFix(lastOp'.call, fix)
          /\ (location = None) = (location' = None)
          /\ location # None =>
                 /\ \A f \in PositionFields : Get(location')[f] = Get(location)[f]
                 /\ Get(location').isValid = Get(location).isValid
          /\ error' = error
          /\ isTracking' = isTracking
          /\ UNCHANGED <<hasPermission, lastValidLocation, locationHistory,
                         headingHistory, locationSubscription, headingSubscription,
                         positionWatchers, headingWatchers>>]_vars

\* A rejected fix was pushed while tracking and the snapshot was republished.
C1_Witness ==
    /\ lastOp.op = "PushFix"
    /\ lastOp.verdict = "rejected"
    /\ isTracking
    /\ location # None
    /\ Get(location).signalStrength = "poor"
    /\ Get(location).latitude = HomeLat
    /\ consecutiveRejectionsCount = 2

\* C10: a published snapshot with isValid = true has its latitude in [-90, 90],
\* its longitude in [-180, 180], and neither coordinate equal to 0.
C10_PublishedCoordinatesInRange ==
    (location # None /\ Get(location).isValid)
    => /\ Get(location).latitude >= 0 - 90 * Deg
       /\ Get(location).latitude <= 90 * Deg
       /\ Get(location).longitude >= 0 - 180 * Deg
       /\ Get(location).longitude <= 180 * Deg
       /\ Get(location).latitude # 0
       /\ Get(location).longitude # 0

\* A snapshot was published for a pushed fix after fixes were rejected and a
\* compass reading was applied.
C10_Witness ==
    /\ lastOp.op = "PushFix"
    /\ lastOp.verdict = "accepted"
    /\ location # None
    /\ Get(location).isValid
    /\ Get(location).latitude = HomeLat + 45000
    /\ readings = 1
    /\ pushes >= 3

C7_CoarseFixCountsOnce ==
    [][\A fix \in Fixes :
          (/\ PushStep("coarse")
           /\ TooCoarse(fix.accuracy)
           /\ isValidLocation(fix.latitude, fix.longitude, fix.accuracy)
           /\ PushFix(lastOp'.call, fix))
          => /\ location' = location
             /\ consecutiveRejectionsCount' = consecutiveRejectionsCount + 1]_vars

\* C8: a pushed fix that isValidLocation rejects raises the rejection counter by
\* exactly 1 and leaves the position history alone; a fix that isValidLocation
\* accepts, from getCurrentPositionAsync or pushed, becomes the newest entry of
\* the position history and sets the counter to 0 (the minAccuracy filter of the
\* position callback then counts 1 for a fix it drops).
C8_ValidatorCountsAndRecords ==
    [][/\ PushStep("rejected")
          => /\ consecutiveRejectionsCount' = consecutiveRejectionsCount + 1
             /\ locationHistory' = locationHistory
       /\ (lastOp'.op \in {"PushFix", "GetFixResolved"} /\ lastOp'.verdict # "rejected")
          => \A fix \in Fixes :
                LET pushed == lastOp'.op = "PushFix" /\ PushFix(lastOp'.call, fix)
                    asked  == lastOp'.op = "GetFixResolved" /\ GetFixResolved(lastOp'.call, fix)
                    newest == locationHistory'[Len(locationHistory')]
                IN  (pushed \/ asked)
                    => /\ isValidLocation(fix.latitude, fix.longitude, fix.accuracy)
                       /\ locationHistory' # << >>
                       /\ newest.lat = fix.latitude
                       /\ newest.lng = fix.longitude
                       /\ Len(locationHistory') = Len(locationHistory) + 1
                       /\ consecutiveRejectionsCount' =
                              IF pushed /\ TooCoarse(fix.accuracy) THEN 1 ELSE 0]_vars

\* A pushed fix was accepted after rejected ones: the counter is back at 0 and
\* the fix is the newest of two history entries.
C8_Witness ==
    /\ lastOp.op = "PushFix"
    /\ lastOp.verdict = "accepted"
    /\ pushes >= 3
    /\ consecutiveRejectionsCount = 0
    /\ Len(locationHistory) = 2
    /\ locationHistory[2].lat = Get(location).latitude
    /\ locationHistory[1].lat # locationHistory[2].lat

----------------------------------------------------------------------------
\* Properties of the lifecycle (Spec).

\* C2: once stopTracking() ran while a startTracking() was in its retry loop,
\* that invocation makes no further attempt, publishes no snapshot, creates no
\* subscription, and ends with isTracking = false.
C2_StopCancelsAcquisition ==
    [][\A p \in Calls :
          calls[p].stopped = "inLoop"
          => /\ calls'[p].attempts <= calls[p].attempts
             /\ calls'[p] # calls[p] => location' = location
             /\ p \notin positionWatchers'
             /\ p \notin headingWatchers'
             /\ (calls[p].pc # "done" /\ calls'[p].pc = "done") => ~isTracking']_vars

\* C3: after completed startTracking(), stopTracking() and resetTracking() calls
\* of which the last is a stopTracking() or a resetTracking(), the provider
\* holds no active position subscription and no active heading subscription.
C3_StopReleasesEverySubscription ==
    (/\ lastOp.op \in {"StopTracking", "ResetTracking"}
     /\ ~interleaved)
    => /\ positionWatchers = {}
       /\ headingWatchers = {}

\* C4: a startTracking() makes at most 10 attempts; an attempt that is rejected
\* or fails publishes nothing and creates no subscription; a retry loop ends
\* without a position only after the 10th attempt, and then the invocation has
\* returned with isTracking = false, the error set and no subscription of its
\* own; an invocation that returned does nothing more.
C4_ExhaustionStopsTheSession ==
    [][\A p \in Calls :
          /\ calls'[p].attempts <= 10
          /\ (/\ InLoop(calls[p])
              /\ calls'[p] # calls[p]
              /\ lastOp'.op \in {"GetFixResolved", "GetFixFailed", "TimerFired"}
              /\ lastOp'.verdict # "accepted")
             => /\ location' = location
                /\ UNCHANGED <<locationSubscription, headingSubscription,
                               positionWatchers, headingWatchers>>
          /\ (lastOp'.call = p /\ lastOp'.verdict = "exhausted")
             => /\ calls[p].attempts = 10
                /\ calls'[p].pc = "done"
                /\ ~isTracking'
                /\ error' = "noValidFix"
                /\ p \notin positionWatchers'
                /\ p \notin headingWatchers'
          /\ calls[p].pc = "done" => calls'[p] = calls[p]]_vars

\* A retry loop ran out of attempts on a session that never had a position.
C4_Witness ==
    /\ lastOp.verdict = "exhausted"
    /\ calls[lastOp.call].pc = "done"
    /\ consecutiveRejectionsCount = 10
    /\ location = None
    /\ ~isTracking
    /\ error = "noValidFix"
    /\ positionWatchers = {}

\* What startTracking() leaves when its 10th attempt returns (39.9042, 116.4074)
\* with accuracy 8 after 9 rejected attempts, on a session that holds no last
\* valid location and that no stopTracking() or resetTracking() interrupted:
\* isTracking, no error, the snapshot at that coordinate, the counter at 0.
TenthAttemptAcquires(p, signal) ==
    (/\ calls[p].pc = "getFix"
     /\ calls[p].attempts = 10
     /\ calls[p].stopped = "no"
     /\ consecutiveRejectionsCount = 9
     /\ lastValidLocation = None
     /\ GetFixResolved(p, HomeFix))
    => /\ isTracking'
       /\ error' = "none"
       /\ location' # None
       /\ Get(location').latitude = 39 * Deg + 9042000
       /\ Get(location').longitude = 116 * Deg + 4074000
       /\ Get(location').accuracy = 8
       /\ Get(location').signalStrength = signal
       /\ consecutiveRejectionsCount' = 0
       /\ calls'[p].pc = "watchPosition"

\* C5, as the code has it: in that scenario the session reaches tracking with
\* the snapshot at exactly that coordinate, signalStrength "good" and the
\* rejection counter at 0.
C5_TenthAttemptAcquiresGood ==
    [][\A p \in Calls : TenthAttemptAcquires(p, "good")]_vars

\* The 10th attempt of a startTracking() was accepted after 9 rejections.
C5_Witness ==
    /\ lastOp.op = "GetFixResolved"
    /\ lastOp.verdict = "accepted"
    /\ calls[lastOp.call].attempts = 10
    /\ calls[lastOp.call].stopped = "no"
    /\ now = 9 * ClockStepMs
    /\ isTracking
    /\ Len(locationHistory) = 1
    /\ location # None
    /\ Get(location).latitude = HomeLat
    /\ Get(location).signalStrength = "good"

\* C5, as the spec has it: the same with signalStrength "excellent".
C5_TenthAttemptAcquiresExcellent ==
    [][\A p \in Calls : TenthAttemptAcquires(p, "excellent")]_vars

\* C9: after stopTracking() the last valid location, the position history, the
\* heading history and the rejection counter are empty or zero.
C9_StopDiscardsValidationState ==
    lastOp.op = "StopTracking"
    => /\ lastValidLocation = None
       /\ locationHistory = << >>
       /\ headingHistory = << >>
       /\ consecutiveRejectionsCount = 0

----------------------------------------------------------------------------
\* One tracking session under any smoothing window (HeadingSpec): the hook is
\* constructed with some headingSamples, and the fixes and compass readings
\* carry raw headings below 0 and beyond 360.

HeadingSampleOptions == {0, 1, 2, DefaultHeadingSamples}

\* Fixes a few metres apart, all good enough to be accepted, that differ in heading.
HeadingFixes ==
    {Fix(HomeLat, HomeLng, 8, 350, NoValue),
     Fix(HomeLat + 100, HomeLng, 8, 0 - 90, NoValue),
     Fix(HomeLat + 200, HomeLng, 8, 725, NoValue),
     Fix(HomeLat + 300, HomeLng, 8, NoValue, NoValue)}

RawCompassHeadings == {NoValue, NaN, 0 - 1, 10, 270, 360}

HeadingInit == \E samples \in HeadingSampleOptions : Constructed(samples)

HeadingNext ==
    \/ \E outcome \in PermissionOutcomes : MountPermissionResolved(outcome)
    \/ Mounted /\ StartTracking(FirstCall)
    \/ \E outcome \in PermissionOutcomes : StartPermissionResolved(FirstCall, outcome)
    \/ \E fix \in HeadingFixes : GetFixResolved(FirstCall, fix)
    \/ WatchPositionResolved(FirstCall)
    \/ WatchHeadingResolved(FirstCall)
    \/ \E s \in Calls, fix \in HeadingFixes : PushFix(s, fix)
    \/ \E s \in Calls, heading \in RawCompassHeadings : PushHeading(s, heading)

HeadingSpec == HeadingInit /\ [][HeadingNext]_vars

\* C11: the smoothedHeading of the published snapshot is a number h with
\* 0 <= h < 360, whatever raw headings the fixes and the compass delivered and
\* whatever headingSamples the hook was constructed with.
C11_SmoothedHeadingInRange ==
    location # None
    => /\ Get(location).smoothedHeading >= 0
       /\ Get(location).smoothedHeading < 360

----------------------------------------------------------------------------
\* isValidLocation and getSignalStrength applied to any candidate in any
\* validation state (FunctionSpec).

\* The snapshot a session holds for a fix it accepted at time t.
AcceptedAt(fix, t) ==
    [latitude |-> fix.latitude,
     longitude |-> fix.longitude,
     heading |-> InitialHeading(fix),
     smoothedHeading |-> NormalizeHeading(InitialHeading(fix)),
     accuracy |-> OrUndefined(fix.accuracy),
     speed |-> OrUndefined(fix.speed),
     timestamp |-> t,
     isMoving |-> IsMoving(fix.speed),
     isValid |-> TRUE,
     signalStrength |-> getSignalStrength(fix.accuracy, 0)]

\* The history entry of a fix accepted at time t.
EntryAt(fix, t) == [lat |-> fix.latitude, lng |-> fix.longitude, timestamp |-> t]

LastAcceptedAt == 10 * 1000

\* What a session can hold when a fix arrives: nothing (after resetTracking()),
\* one accepted fix, standing or moving, or the same fix accepted three times.
ValidationStates ==
    {[last |-> None, history |-> << >>],
     [last |-> Some(AcceptedAt(HomeFix, LastAcceptedAt)),
      history |-> << EntryAt(HomeFix, LastAcceptedAt) >>],
     [last |-> Some(AcceptedAt(WalkFix, LastAcceptedAt)),
      history |-> << EntryAt(WalkFix, LastAcceptedAt) >>],
     [last |-> Some(AcceptedAt(HomeFix, LastAcceptedAt)),
      history |-> << EntryAt(HomeFix, LastAcceptedAt - 1000),
                     EntryAt(HomeFix, LastAcceptedAt - 500),
                     EntryAt(HomeFix, LastAcceptedAt) >>]}

\* The rejection counter when the fix arrives.
RejectionCounts == {0, 5, 6, 10, 11}

\* Date.now() when the fix arrives: 1 s before the last accepted timestamp, and
\* 0 s, 1 s, 1.001 s, 2 s, 59.999 s and 60 s after it.
ArrivalTimes ==
    {LastAcceptedAt - 1000, LastAcceptedAt, LastAcceptedAt + 1000, LastAcceptedAt + 1001,
     LastAcceptedAt + 2000, LastAcceptedAt + 59999, LastAcceptedAt + 60000}

\* A session whose position subscription delivers, in the given validation state.
FunctionInit ==
    \E v \in ValidationStates, count \in RejectionCounts, t \in ArrivalTimes :
        /\ headingSamples = DefaultHeadingSamples
        /\ location = v.last
        /\ hasPermission = "true"
        /\ isTracking = (v.last # None)
        /\ error = "none"
        /\ locationSubscription = FirstCall
        /\ headingSubscription = 0
        /\ headingHistory = IF v.last = None THEN << >>
                            ELSE << Get(v.last).smoothedHeading >>
        /\ lastValidLocation = v.last
        /\ locationHistory = v.history
        /\ consecutiveRejectionsCount = count
        /\ calls = [p \in Calls |-> IF p = FirstCall THEN Returned(NewCall) ELSE NewCall]
        /\ mountRequest = "done"
        /\ positionWatchers = {FirstCall}
        /\ headingWatchers = {}
        /\ platform = "android"
        /\ now = t
        /\ pushes = 0
        /\ readings = 0
        /\ validated = 0
        /\ interleaved = FALSE
        /\ lastOp = Op("Init", 0, "-")

\* The coordinates of the candidates: with a zero, near (0, 0), and on the
\* meridian of the accepted fixes at 0 m, 500 m and 5.5 km from HomeFix.
CandidateCoordinates ==
    {<<0, 0>>, <<0, HomeLng>>, <<HomeLat, 0>>,
     <<500000, 500000>>, <<700000, 700000>>, <<0 - 500000, 300000>>,
     <<HomeLat, HomeLng>>, <<HomeLat + 45000, HomeLng>>, <<HomeLat + 500000, HomeLng>>}

CandidateAccuracies == {NoValue, 5, 2000}

MaxCalls == 2           \* isValidLocation() calls in one run

\* isValidLocation(lat, lng, accuracy) is called: it counts the rejection or
\* records the accepted coordinate, and returns.
Validate(lat, lng, accuracy) ==
    LET valid == isValidLocation(lat, lng, accuracy)
    IN  /\ pushes < MaxCalls
        /\ pushes' = pushes + 1
        /\ consecutiveRejectionsCount' = CountAfterValidation(valid)
        /\ locationHistory' = HistoryAfterValidation(valid, lat, lng)
        /\ lastOp' = Op("isValidLocation", <<lat, lng, accuracy>>,
                        IF valid THEN "accepted" ELSE RejectReason(lat, lng, accuracy))
        /\ UNCHANGED <<location, hasPermission, isTracking, error, locationSubscription,
                       headingSubscription, headingHistory, lastValidLocation, calls,
                       mountRequest, positionWatchers, headingWatchers, platform,
                       headingSamples, now, readings, validated, interleaved>>

ClassifiedAccuracies == {NoValue, 0, 2, 5, 6, 15, 16, 50, 51}

\* getSignalStrength(accuracy) is called.
Classify(accuracy) ==
    /\ lastOp' = Op("getSignalStrength", accuracy,
                    getSignalStrength(accuracy, consecutiveRejectionsCount))
    /\ UNCHANGED <<location, hasPermission, isTracking, error, locationSubscription,
                   headingSubscription, headingHistory, lastValidLocation, locationHistory,
                   consecutiveRejectionsCount, calls, mountRequest, positionWatchers,
                   headingWatchers, platform, headingSamples, now, pushes, readings,
                   validated, interleaved>>

FunctionNext ==
    \/ \E c \in CandidateCoordinates, accuracy \in CandidateAccuracies :
          Validate(c[1], c[2], accuracy)
    \/ \E accuracy \in ClassifiedAccuracies : Classify(accuracy)

FunctionSpec == FunctionInit /\ [][FunctionNext]_vars

\* C12: isValidLocation rejects every candidate with lat = 0 or lng = 0, and
\* every candidate with sqrt(lat^2 + lng^2) < 0.1 (here lat^2 + lng^2 < 1000^2
\* in units of 0.0001 degree), whatever the accuracy, the last accepted fix,
\* the position history and the rejection counter are.
C12_ZeroAndNearOriginRejected ==
    lastOp.op = "isValidLocation"
    => LET lat == lastOp.call[1]
           lng == lastOp.call[2]
           a == Abs(lat) \div 1000
           b == Abs(lng) \div 1000
           zero == lat = 0 \/ lng = 0
           near == Abs(lat) < Deg /\ Abs(lng) < Deg /\ a * a + b * b < 1000 * 1000
       IN  (zero \/ near) => lastOp.verdict # "accepted"

\* (0.07, 0.07), 0.099 from the origin, was rejected with accuracy 5 while a
\* last accepted fix was held and eleven rejections had been counted.
C12_Witness ==
    /\ lastOp.op = "isValidLocation"
    /\ lastOp.call = <<700000, 700000, 5>>
    /\ lastOp.verdict = "nearOrigin"
    /\ lastValidLocation # None
    /\ consecutiveRejectionsCount = 12

\* C13: with a last accepted fix, a candidate d metres from it that is
\* validated dt after its timestamp is rejected whenever 1 s < dt < 60 s and
\* d > 50 m/s * dt (20 * d > dt with dt in ms), and the teleportation rule does
\* not reject it when dt <= 1 s or dt >= 60 s.  Stated for the candidates on
\* the meridian of the last accepted fix.
C13_TeleportationWindow ==
    (/\ lastOp.op = "isValidLocation"
     /\ lastValidLocation # None
     /\ lastOp.call[2] = Get(lastValidLocation).longitude)
    => LET d  == calculateDistance(Get(lastValidLocation).latitude,
                                   Get(lastValidLocation).longitude,
                                   lastOp.call[1], lastOp.call[2])
           dt == now - Get(lastValidLocation).timestamp
       IN  /\ (dt > 1000 /\ dt < 60000 /\ 20 * d > dt) => lastOp.verdict # "accepted"
           /\ (dt <= 1000 \/ dt >= 60000) => lastOp.verdict # "teleportation"

\* A candidate 5.5 km from the last accepted fix was rejected as a
\* teleportation 59.999 s after it.
C13_Witness ==
    /\ lastOp.op = "isValidLocation"
    /\ lastOp.verdict = "teleportation"
    /\ lastValidLocation # None
    /\ Get(lastValidLocation).latitude = HomeLat
    /\ lastOp.call[1] = HomeLat + 500000
    /\ now - Get(lastValidLocation).timestamp = 59999

\* C14: whatever the accuracy argument is, getSignalStrength returns "lost"
\* when the rejection counter is greater than 10 and "poor" when it is
\* greater than 5 and at most 10.
C14_StreakOverridesAccuracy ==
    lastOp.op = "getSignalStrength"
    => /\ consecutiveRejectionsCount > 10 => lastOp.verdict = "lost"
       /\ (consecutiveRejectionsCount > 5 /\ consecutiveRejectionsCount <= 10)
          => lastOp.verdict = "poor"

\* The classifier was asked about accuracy 2 with 11 rejections counted and said "lost".
C14_Witness ==
    /\ lastOp.op = "getSignalStrength"
    /\ lastOp.call = 2
    /\ consecutiveRejectionsCount = 11
    /\ lastOp.verdict = "lost"

\* C15: with a rejection counter of at most 5, getSignalStrength returns "lost"
\* without an accuracy, and for an accuracy a >= 0, a = 0 included, "excellent"
\* if a <= 5, "good" if a <= 15, "poor" if a <= 50 and "lost" beyond.
C15_AccuracyBands ==
    (lastOp.op = "getSignalStrength" /\ consecutiveRejectionsCount <= 5)
    => LET a == lastOp.call
       IN  lastOp.verdict = IF a = NoValue THEN "lost"
                            ELSE IF a <= 5 THEN "excellent"
                            ELSE IF a <= 15 THEN "good"
                            ELSE IF a <= 50 THEN "poor"
                            ELSE "lost"

----------------------------------------------------------------------------
\* Properties of stopTracking() and resetTracking() (Spec).

\* C16: after resetTracking() the published snapshot, the error, the last
\* valid location, the position history, the heading history and the rejection
\* counter are empty or zero and isTracking is false; a second resetTracking()
\* right after it changes nothing.
C16_ResetClearsAndIsIdempotent ==
    lastOp.op = "ResetTracking"
    => /\ location = None
       /\ error = "none"
       /\ lastValidLocation = None
       /\ locationHistory = << >>
       /\ headingHistory = << >>
       /\ consecutiveRejectionsCount = 0
       /\ ~isTracking
       /\ ~ENABLED (ResetTracking /\ vars' # vars)

\* resetTracking() ran on a session that had published its first snapshot and
\* was waiting for watchPositionAsync().
C16_Witness ==
    /\ lastOp.op = "ResetTracking"
    /\ calls[FirstCall].pc = "watchPosition"
    /\ calls[FirstCall].stopped = "later"
    /\ hasPermission = "true"
    /\ location = None
    /\ lastValidLocation = None

\* C17: stopTracking() leaves the published snapshot as it was and leaves
\* isTracking false.
C17_StopKeepsSnapshot ==
    [][lastOp'.op = "StopTracking"
       => /\ location' = location
          /\ ~isTracking']_vars

\* stopTracking() ran on a tracking session: the snapshot is still published.
C17_Witness ==
    /\ lastOp.op = "StopTracking"
    /\ calls[FirstCall].pc = "done"
    /\ location # None
    /\ Get(location).latitude = HomeLat
    /\ Get(location).isValid
    /\ ~isTracking
    /\ positionWatchers = {}

----------------------------------------------------------------------------
\* One tracking session and its compass (CompassSpec): the first
\* startTracking(), the compass readings of its heading subscription, and
\* stopTracking() and resetTracking() at any moment.

CompassNext ==
    \/ \E outcome \in PermissionOutcomes : MountPermissionResolved(outcome)
    \/ Mounted /\ StartTracking(FirstCall)
    \/ \E outcome \in PermissionOutcomes : StartPermissionResolved(FirstCall, outcome)
    \/ \E fix \in Fixes : ProviderAnswers(FirstCall, fix) /\ GetFixResolved(FirstCall, fix)
    \/ ProviderThrows(FirstCall) /\ GetFixFailed(FirstCall)
    \/ TimerFired(FirstCall)
    \/ WatchPositionResolved(FirstCall)
    \/ WatchPositionFailed(FirstCall)
    \/ WatchHeadingResolved(FirstCall)
    \/ WatchHeadingFailed(FirstCall)
    \/ \E s \in Calls, heading \in RawCompassHeadings : PushHeading(s, heading)
    \/ Mounted /\ StopTracking
    \/ Mounted /\ ResetTracking

CompassSpec == Init /\ [][CompassNext]_vars

\* The fields of a snapshot that a compass reading leaves alone.
FieldsKeptByCompass == {"latitude", "longitude", "accuracy", "speed", "isMoving",
                        "isValid", "signalStrength"}

\* C18: a compass reading leaves latitude, longitude, accuracy, speed,
\* isMoving, isValid and signalStrength of the published snapshot as they were
\* and publishes no snapshot where none was published; while the session holds
\* no valid last location it changes neither the snapshot nor the heading
\* history; it never changes the validation state of the position, the error
\* or isTracking.
C18_CompassChangesHeadingOnly ==
    [][lastOp'.op = "PushHeading"
       => /\ (location' = None) = (location = None)
          /\ location # None
             => \A f \in FieldsKeptByCompass : Get(location')[f] = Get(location)[f]
          /\ lastValidLocation = None
             => UNCHANGED <<location, headingHistory>>
          /\ UNCHANGED <<lastValidLocation, locationHistory, consecutiveRejectionsCount,
                         error, isTracking, hasPermission>>]_vars

\* The compass reading 270 was applied to the snapshot of the first fix.
C18_Witness ==
    /\ lastOp.op = "PushHeading"
    /\ lastOp.verdict = "applied"
    /\ location # None
    /\ Get(location).heading = 270
    /\ Get(location).smoothedHeading # Get(lastValidLocation).smoothedHeading
    /\ Get(location).latitude = HomeLat
    /\ Get(location).signalStrength = "good"

----------------------------------------------------------------------------
\* Properties of the permission request of startTracking() (Spec).

\* C19: when the permission request that startTracking() awaits is denied or
\* throws, the invocation returns at once and never asks for a fix: no snapshot
\* is published, no subscription is created, isTracking was and stays false,
\* hasPermission is false and the error names the permission.
C19_DeniedPermissionAbortsStart ==
    [][\A p \in Calls :
          /\ (/\ lastOp'.op = "StartPermissionResolved"
              /\ lastOp'.call = p
              /\ lastOp'.verdict \in {"denied", "threw"})
             => /\ calls[p].pc = "permission"
                /\ calls'[p].pc = "done"
                /\ location' = location
                /\ UNCHANGED <<locationSubscription, headingSubscription,
                               positionWatchers, headingWatchers>>
                /\ ~isTracking
                /\ ~isTracking'
                /\ hasPermission' = "false"
                /\ error' = IF lastOp'.verdict = "denied"
                            THEN "permissionDenied" ELSE "permissionError"
          /\ (calls[p].pc = "permission" /\ calls'[p].pc = "getFix")
             => lastOp'.verdict = "granted"
          /\ calls[p].pc = "done" => calls'[p] = calls[p]]_vars

\* The second startTracking() was denied the permission, as the first.
C19_Witness ==
    /\ lastOp.op = "StartPermissionResolved"
    /\ lastOp.verdict = "denied"
    /\ lastOp.call = 2
    /\ calls[1].pc = "done"
    /\ calls[2].pc = "done"
    /\ hasPermission = "false"
    /\ error = "permissionDenied"
    /\ ~isTracking
    /\ location = None
    /\ positionWatchers = {}

----------------------------------------------------------------------------
\* The lifecycle with a provider whose remove() can throw (ReleaseSpec).

\* The remove() call of one stopTracking() that throws.
ThrowingRemoves == {"position", "heading"}

\* What stopTracking() has done when the exception of a remove() leaves it:
\* the statements after the call that threw have not run.  Whether the provider
\* still delivers to a subscription whose remove() threw is the provider's choice.
StopInterrupted(which) ==
    /\ which \in ThrowingRemoves
    /\ IF which = "position"
       THEN /\ locationSubscription # 0
            /\ \E released \in BOOLEAN :
                  positionWatchers' = IF released
                                      THEN Removed(positionWatchers, locationSubscription)
                                      ELSE positionWatchers
            /\ UNCHANGED <<locationSubscription, headingWatchers, headingSubscription>>
       ELSE /\ headingSubscription # 0
            /\ positionWatchers' = Removed(positionWatchers, locationSubscription)
            /\ locationSubscription' = 0
            /\ \E released \in BOOLEAN :
                  headingWatchers' = IF released
                                     THEN Removed(headingWatchers, headingSubscription)
                                     ELSE headingWatchers
            /\ UNCHANGED headingSubscription
    /\ UNCHANGED isTracking
    /\ calls' = Stopped(calls)
    /\ interleaved' = (interleaved \/ \E p \in Calls : InFlight(calls[p]))

\* stopTracking() is called and a remove() throws.
StopTrackingThrew(which) ==
    /\ StopInterrupted(which)
    /\ lastOp' = Op("StopTracking", 0, which)
    /\ UNCHANGED <<location, hasPermission, error, headingHistory, lastValidLocation,
                   locationHistory, consecutiveRejectionsCount, mountRequest, platform,
                   headingSamples, now, pushes, readings, validated>>

\* resetTracking() is called and a remove() of its stopTracking() throws: the
\* exception leaves resetTracking() before it clears anything.
ResetTrackingThrew(which) ==
    /\ StopInterrupted(which)
    /\ lastOp' = Op("ResetTracking", 0, which)
    /\ UNCHANGED <<location, hasPermission, error, headingHistory, lastValidLocation,
                   locationHistory, consecutiveRejectionsCount, mountRequest, platform,
                   headingSamples, now, pushes, readings, validated>>

ReleaseNext ==
    \/ Next
    \/ \E which \in ThrowingRemoves : Mounted /\ StopTrackingThrew(which)
    \/ \E which \in ThrowingRemoves : Mounted /\ ResetTrackingThrew(which)

ReleaseSpec == Init /\ [][ReleaseNext]_vars

\* C20: when a remove() throws in stopTracking(), the subscriptions held in
\* the two refs are both given up (the refs are null, and the provider no
\* longer delivers to the subscription whose remove() did not throw) and
\* isTracking is false.
C20_StopReleasesDespiteThrow ==
    [][(lastOp'.op = "StopTracking" /\ lastOp'.verdict \in ThrowingRemoves)
       => /\ locationSubscription' = 0
          /\ headingSubscription' = 0
          /\ (lastOp'.verdict = "position" /\ headingSubscription # 0)
             => headingSubscription \notin headingWatchers'
          /\ (lastOp'.verdict = "heading" /\ locationSubscription # 0)
             => locationSubscription \notin positionWatchers'
          /\ ~isTracking']_vars

----------------------------------------------------------------------------
\* The initial snapshot of startTracking() (Spec).

\* C21: whenever a startTracking() call obtains a validated initial fix, a
\* call that follows an earlier stopTracking() included, the snapshot it
\* publishes has the fix's raw heading normalised to [0, 360) (0 for a fix
\* without a heading) as smoothedHeading, and isMoving is true exactly when
\* the fix's speed is greater than 0.5 m/s.
C21_InitialSnapshotFromSingleSample ==
    [][(lastOp'.op = "GetFixResolved" /\ lastOp'.verdict = "accepted")
       => \A fix \in Fixes :
             GetFixResolved(lastOp'.call, fix)
             => /\ location' # None
                /\ Get(location').smoothedHeading = NormalizeHeading(InitialHeading(fix))
                /\ Get(location').isMoving = (fix.speed # NoValue /\ fix.speed > 500)]_vars

----------------------------------------------------------------------------
\* Subscriptions held by the provider (Spec).

\* C28: at any time the provider delivers to at most one position subscription
\* and at most one heading subscription of this hook, whatever the order of
\* startTracking(), stopTracking() and resetTracking() calls is, a
\* startTracking() called on a session that is already Tracking included.
C28_AtMostOneSubscriptionOfEachKind ==
    /\ Cardinality(positionWatchers) <= 1
    /\ Cardinality(headingWatchers) <= 1

----------------------------------------------------------------------------
\* The watchPositionAsync() callback in any validation state (DeliverySpec).

\* What the position subscription delivers: fixes 500 m north of HomeFix whose
\* accuracy is absent, 0, on either side of the classifier's thresholds and of
\* minAccuracy, and a fix of catastrophic accuracy.
DeliveredFixes ==
    {Fix(HomeLat + 45000, HomeLng, accuracy, 10, NoValue) :
        accuracy \in {NoValue, 0, 5, 6, 15, 16, minAccuracy, minAccuracy + 1}}
    \cup {LostFix}

DeliveryNext == \E fix \in DeliveredFixes : PushFix(FirstCall, fix)

DeliverySpec == FunctionInit /\ [][DeliveryNext]_vars

\* C22: the snapshot published for an accepted pushed fix has the signal
\* strength of the classifier's accuracy bands alone ("lost" without an
\* accuracy, "excellent" up to 5 m, accuracy 0 included, "good" up to 15 m,
\* "poor" up to 50 m, "lost" beyond), however many fixes were rejected before
\* it, and the rejection counter is 0 afterwards.
C22_AcceptedFixClassifiedByAccuracy ==
    [][PushStep("accepted")
       => /\ consecutiveRejectionsCount' = 0
          /\ \A fix \in DeliveredFixes :
                PushFix(FirstCall, fix)
                => Get(location').signalStrength =
                      IF fix.accuracy = NoValue THEN "lost"
                      ELSE IF fix.accuracy <= 5 THEN "excellent"
                      ELSE IF fix.accuracy <= 15 THEN "good"
                      ELSE IF fix.accuracy <= 50 THEN "poor"
                      ELSE "lost"]_vars

----------------------------------------------------------------------------
\* The pattern rules of isValidLocation (FunctionSpec, HistorySpec).

\* C23: the jump-while-moving rule rejects a candidate only when no rejection
\* is being counted, the last accepted fix was moving and the candidate is
\* more than 1000 m from it; so the isValidLocation() call that follows a
\* rejection by this rule is not rejected by it, whatever its candidate is.
C23_JumpWhileMovingRejectsOnce ==
    [][lastOp'.op = "isValidLocation"
       => /\ lastOp'.verdict = "jumpWhileMoving"
             => /\ consecutiveRejectionsCount = 0
                /\ lastValidLocation # None
                /\ Get(lastValidLocation).isMoving
                /\ calculateDistance(Get(lastValidLocation).latitude,
                                     Get(lastValidLocation).longitude,
                                     lastOp'.call[1], lastOp'.call[2]) > 1000
          /\ (lastOp.op = "isValidLocation" /\ lastOp.verdict = "jumpWhileMoving")
             => lastOp'.verdict # "jumpWhileMoving"]_vars

\* The moving session was handed a candidate 5 km from its last accepted fix
\* and rejected it by this rule; handed the same candidate again, it accepts it.
C23_Witness ==
    /\ lastOp.op = "isValidLocation"
    /\ lastOp.call = <<HomeLat + 500000, HomeLng, 5>>
    /\ lastOp.verdict = "jumpWhileMoving"
    /\ Get(lastValidLocation).isMoving
    /\ consecutiveRejectionsCount = 1
    /\ ENABLED (/\ Validate(HomeLat + 500000, HomeLng, 5)
                /\ lastOp'.verdict = "accepted")

----------------------------------------------------------------------------
\* isValidLocation and smoothHeading applied to sessions whose two histories
\* are partly or wholly filled (HistorySpec).

\* Headings of successive fixes, turning through north.
HeadingSequence == <<350, 355, 5, 10, 20>>

\* headingSamples of the session.
HistoryWindows == {2, DefaultHeadingSamples}

\* headingHistory after the first k headings of the sequence were smoothed
\* with the given window.
LastSamples(k, window) ==
    SubSeq(HeadingSequence, IF k > window THEN k - window + 1 ELSE 1, k)

\* The position history of a provider that echoed HomeFix n times, one fix
\* every 500 ms.
Echo(n) == [i \in 1..n |-> EntryAt(HomeFix, LastAcceptedAt - 500 * (n - i))]

\* A full position history: the session went back and forth between WalkFix
\* and HomeFix.
Alternating ==
    [i \in 1..MaxHistory |->
        EntryAt(IF i % 2 = 0 THEN HomeFix ELSE WalkFix,
                LastAcceptedAt - 500 * (MaxHistory - i))]

\* locationHistory when the call is made: empty (startTracking() emptied it),
\* HomeFix once, twice or three times, or full.
PositionHistories == {<< >>, Echo(1), Echo(2), Echo(3), Alternating}

\* The snapshot of a session that accepted HomeFix last and smoothed the
\* given headings.
Held(headings) ==
    [AcceptedAt(HomeFix, LastAcceptedAt) EXCEPT
        !.heading = headings[Len(headings)],
        !.smoothedHeading = CircularMean(headings)]

\* A tracking session that has smoothed the first k headings and holds one of
\* the position histories; k = 0 is the session before its first fix.
HistoryInit ==
    \E positions \in PositionHistories, k \in 0..Len(HeadingSequence),
       window \in HistoryWindows :
        /\ k = 0 => positions = << >>
        /\ headingSamples = window
        /\ headingHistory = LastSamples(k, window)
        /\ lastValidLocation = IF k = 0 THEN None
                               ELSE Some(Held(LastSamples(k, window)))
        /\ location = lastValidLocation
        /\ locationHistory = positions
        /\ hasPermission = "true"
        /\ isTracking = TRUE
        /\ error = "none"
        /\ locationSubscription = FirstCall
        /\ headingSubscription = 0
        /\ consecutiveRejectionsCount = 0
        /\ calls = [p \in Calls |-> IF p = FirstCall THEN Returned(NewCall) ELSE NewCall]
        /\ mountRequest = "done"
        /\ positionWatchers = {FirstCall}
        /\ headingWatchers = {}
        /\ platform = "android"
        /\ now = LastAcceptedAt
        /\ pushes = 0
        /\ readings = 0
        /\ validated = 0
        /\ interleaved = FALSE
        /\ lastOp = Op("Init", 0, "-")

\* The candidates: HomeFix's coordinate, the coordinates 0.0000005 and
\* 0.000001 degree north of it, WalkFix's coordinate, and (0, 0).
EchoCandidates ==
    {<<HomeLat, HomeLng>>, <<HomeLat + 5, HomeLng>>, <<HomeLat + 10, HomeLng>>,
     <<HomeLat + 45000, HomeLng>>, <<0, 0>>}

\* The raw headings handed to smoothHeading.
SmoothedHeadings == {NoValue, NaN, 350, 355, 5, 10, 20}

\* smoothHeading(newHeading) is called in a session that holds a last valid
\* location, and returns; like the compass callback, the caller leaves
\* lastValidLocation alone.
Smooth(newHeading) ==
    /\ lastValidLocation # None
    /\ pushes < MaxCalls
    /\ pushes' = pushes + 1
    /\ headingHistory' = HistoryAfterSmoothing(newHeading)
    /\ lastOp' = Op("smoothHeading", newHeading, smoothHeading(newHeading))
    /\ UNCHANGED <<location, hasPermission, isTracking, error, locationSubscription,
                   headingSubscription, lastValidLocation, locationHistory,
                   consecutiveRejectionsCount, calls, mountRequest, positionWatchers,
                   headingWatchers, platform, headingSamples, now, readings,
                   validated, interleaved>>

HistoryNext ==
    \/ \E c \in EchoCandidates : Validate(c[1], c[2], 5)
    \/ \E newHeading \in SmoothedHeadings : Smooth(newHeading)

HistorySpec == HistoryInit /\ [][HistoryNext]_vars

\* C24: when the three newest entries of the position history and the
\* candidate all lie within 0.000001 degree of one another in latitude and in
\* longitude, isValidLocation rejects the candidate, counts the rejection and
\* leaves the history as it is, so that the same candidate is rejected again;
\* and the position history never holds four consecutive entries that all lie
\* within 0.000001 degree of one another.
C24_StuckGpsRejected ==
    [][lastOp'.op = "isValidLocation"
       => LET Identical(a, b) == /\ Abs(a.lat - b.lat) < 10
                                 /\ Abs(a.lng - b.lng) < 10
              AllIdentical(entries) ==
                  \A i, j \in DOMAIN entries : Identical(entries[i], entries[j])
              n == Len(locationHistory)
              candidate == [lat |-> lastOp'.call[1], lng |-> lastOp'.call[2]]
          IN  /\ (/\ n >= 3
                  /\ AllIdentical(<<locationHistory[n - 2], locationHistory[n - 1],
                                    locationHistory[n], candidate>>))
                 => /\ lastOp'.verdict # "accepted"
                    /\ locationHistory' = locationHistory
                    /\ consecutiveRejectionsCount' = consecutiveRejectionsCount + 1
              /\ \A i \in 1..(Len(locationHistory') - 3) :
                    ~AllIdentical(SubSeq(locationHistory', i, i + 3))]_vars

\* The provider echoed HomeFix: the session held it twice, accepted it a third
\* time and rejected the fourth as stuck.
C24_Witness ==
    /\ lastOp.op = "isValidLocation"
    /\ lastOp.call = <<HomeLat, HomeLng, 5>>
    /\ lastOp.verdict = "stuck"
    /\ pushes = 2
    /\ consecutiveRejectionsCount = 1
    /\ Len(locationHistory) = 3
    /\ \A i \in 1..3 : locationHistory[i].lat = HomeLat /\ locationHistory[i].lng = HomeLng

----------------------------------------------------------------------------
\* Properties of smoothHeading (HistorySpec).

\* C25: a smoothHeading() call with a null or NaN heading that directly
\* follows another smoothHeading() call returns what that call returned, and
\* leaves the heading history as it is.
C25_MissingHeadingRepeatsLastOutput ==
    [][(/\ lastOp.op = "smoothHeading"
        /\ lastOp'.op = "smoothHeading"
        /\ NoHeading(lastOp'.call))
       => /\ lastOp'.verdict = lastOp.verdict
          /\ headingHistory' = headingHistory]_vars

\* C26: with headingSamples = 5, smoothing the headings 350, 355, 5, 10 in
\* this order returns a value within 3 degrees of north (357 or more, or 3 or
\* less) for the fourth, and a value within 15 degrees of north, never one
\* near 180, after each of the first three.
C26_CircularMeanAcrossNorth ==
    (/\ lastOp.op = "smoothHeading"
     /\ headingSamples = 5
     /\ headingHistory \in {SubSeq(<<350, 355, 5, 10>>, 1, n) : n \in 1..4}
     /\ lastOp.call = headingHistory[Len(headingHistory)])
    => /\ lastOp.verdict >= 345 \/ lastOp.verdict <= 15
       /\ lastOp.verdict >= 0 /\ lastOp.verdict < 360
       /\ Len(headingHistory) = 4 => (lastOp.verdict >= 357 \/ lastOp.verdict <= 3)

\* The session had smoothed 350 and 355; 5 and then 10 were smoothed, and the
\* call for 10 returned 0.
C26_Witness ==
    /\ lastOp.op = "smoothHeading"
    /\ lastOp.call = 10
    /\ lastOp.verdict = 0
    /\ headingSamples = 5
    /\ headingHistory = <<350, 355, 5, 10>>
    /\ pushes = 2

----------------------------------------------------------------------------
\* The caps of the two histories (HistorySpec).

\* C27: the position history never holds more than 10 entries and the heading
\* history never more than headingSamples; an accepted candidate is appended
\* to the position history and a smoothed heading to the heading history, and
\* when the history was full its oldest entry is dropped for it.
C27_HistoriesCappedOldestFirst ==
    [][/\ Len(locationHistory') <= 10
       /\ Len(headingHistory') <= headingSamples'
       /\ (lastOp'.op = "isValidLocation" /\ lastOp'.verdict = "accepted")
          => LET entry == [lat |-> lastOp'.call[1], lng |-> lastOp'.call[2],
                           timestamp |-> now]
             IN  locationHistory' =
                    IF Len(locationHistory) = 10
                    THEN Append(Tail(locationHistory), entry)
                    ELSE Append(locationHistory, entry)
       /\ (lastOp'.op = "isValidLocation" /\ lastOp'.verdict # "accepted")
          => locationHistory' = locationHistory
       /\ (lastOp'.op = "smoothHeading" /\ ~NoHeading(lastOp'.call))
          => headingHistory' =
                IF Len(headingHistory) = headingSamples
                THEN Append(Tail(headingHistory), NormalizeHeading(lastOp'.call))
                ELSE Append(headingHistory, NormalizeHeading(lastOp'.call))]_vars

\* With both histories full (10 positions, 2 headings), a candidate was
\* accepted and a heading smoothed: each history dropped its oldest entry.
C27_Witness ==
    /\ pushes = 2
    /\ Len(locationHistory) = 10
    /\ locationHistory[1] = Alternating[2]
    /\ locationHistory[10].lat = HomeLat + 5
    /\ headingSamples = 2
    /\ headingHistory = <<20, 350>>
    /\ lastOp.op = "smoothHeading"

----------------------------------------------------------------------------
\* The position history and the two snapshots of a session (StreamSpec).

\* C29 as stated: whenever the position history is not empty and a last valid
\* location is held, the newest history entry has the latitude and longitude
\* of the last valid location.
C29_HistoryEndsAtLastValidLocation ==
    (locationHistory # << >> /\ lastValidLocation # None)
    => /\ locationHistory[Len(locationHistory)].lat = Get(lastValidLocation).latitude
       /\ locationHistory[Len(locationHistory)].lng = Get(lastValidLocation).longitude

\* C29, amended: the position history records every fix that isValidLocation
\* accepted.  After a fix is accepted and published, the newest history entry
\* has the coordinates of the last valid location; a pushed fix that the
\* minAccuracy filter drops is appended to the history as well, while the last
\* valid location stays as it was; a rejected fix changes neither.
C29_HistoryRecordsValidatedFixes ==
    [][/\ (lastOp'.op \in {"PushFix", "GetFixResolved"} /\ lastOp'.verdict = "accepted")
          => /\ locationHistory' # << >>
             /\ lastValidLocation' # None
             /\ locationHistory'[Len(locationHistory')].lat = Get(lastValidLocation').latitude
             /\ locationHistory'[Len(locationHistory')].lng = Get(lastValidLocation').longitude
       /\ PushStep("coarse")
          => /\ lastValidLocation' = lastValidLocation
             /\ Len(locationHistory') = Len(locationHistory) + 1
             /\ \E fix \in Fixes :
                   /\ TooCoarse(fix.accuracy)
                   /\ PushFix(lastOp'.call, fix)
                   /\ locationHistory'[Len(locationHistory')].lat = fix.latitude
                   /\ locationHistory'[Len(locationHistory')].lng = fix.longitude
       /\ PushStep("rejected")
          => /\ locationHistory' = locationHistory
             /\ lastValidLocation' = lastValidLocation]_vars

\* After HomeFix was accepted, a fix 500 m north of it with accuracy 40 passed
\* isValidLocation and was dropped by the minAccuracy filter: it is the newest
\* history entry, and the last valid location is still HomeFix.
C29_Witness ==
    /\ lastOp.op = "PushFix"
    /\ lastOp.verdict = "coarse"
    /\ Len(locationHistory) = 2
    /\ locationHistory[2].lat = HomeLat + 45000
    /\ lastValidLocation # None
    /\ Get(lastValidLocation).latitude = HomeLat

\* C30: in every state the published snapshot and the last valid location
\* (what recenterMap() returns) are both absent, or both present with the same
\* latitude and longitude.
C30_PublishedAndLastValidAgree ==
    /\ (location = None) = (lastValidLocation = None)
    /\ location # None
       => /\ Get(location).latitude = Get(lastValidLocation).latitude
          /\ Get(location).longitude = Get(lastValidLocation).longitude

\* A pushed fix was accepted 500 m north of the initial one and the next fix
\* was rejected: the republished snapshot differs from the last valid location
\* in signal strength, and both are at the accepted fix.
C30_Witness ==
    /\ lastOp.op = "PushFix"
    /\ lastOp.verdict = "rejected"
    /\ location # None
    /\ lastValidLocation # None
    /\ Get(location) # Get(lastValidLocation)
    /\ Get(location).latitude = HomeLat + 45000
    /\ Get(lastValidLocation).latitude = HomeLat + 45000

====
